---------------------------- MODULE Spec2Model ----------------------------
(***************************************************************************)
(* Model of the Flux Replicate MCP server (src/src/index.ts): the          *)
(* generate_image orchestration pipeline of FluxMcpServer, its start-up    *)
(* and its signal-driven shutdown.                                         *)
(*                                                                         *)
(* Text is a sequence of tokens; concatenation is \o.  Prompts and         *)
(* timestamps are spelled one character per token, because the code cuts   *)
(* them by character position; fixed message fragments are one token.      *)
(* A JavaScript value is a record [t, s, n]: its type tag, its text when   *)
(* it is a string and its number when it is a number.                      *)
(***************************************************************************)
EXTENDS Integers, Sequences, FiniteSets, TLC

(* ------------------------------ bounds -------------------------------- *)

\* Largest value of the wall clock (seconds since the model's epoch).
MaxTime == 1

(* ------------------------- JavaScript values -------------------------- *)

Undef == [t |-> "undefined", s |-> <<>>, n |-> 0]

Str(s) == [t |-> "string", s |-> s, n |-> 0]

Num(n) == [t |-> "number", s |-> <<>>, n |-> n]

\* JavaScript truthiness, as used by `!x`, `x || d` and `if (x)`.
Truthy(v) ==
    \/ v.t = "string" /\ v.s # <<>>
    \/ v.t = "number" /\ v.n # 0

\* `${v}` in a template literal.
Template(v) ==
    CASE v.t = "string" -> v.s
      [] v.t = "number" -> <<ToString(v.n)>>
      [] OTHER -> <<"undefined">>

\* a || b
OrElse(a, b) == IF Truthy(a) THEN a ELSE b

(* ------------------------------- text --------------------------------- *)

UpperCase == <<"A","B","C","D","E","F","G","H","I","J","K","L","M",
               "N","O","P","Q","R","S","T","U","V","W","X","Y","Z">>

LowerCase == <<"a","b","c","d","e","f","g","h","i","j","k","l","m",
               "n","o","p","q","r","s","t","u","v","w","x","y","z">>

Digits == {"0","1","2","3","4","5","6","7","8","9"}

\* The characters the regular expression class \s and String.trim() treat
\* as white space (those that occur in the modelled inputs).
WhiteSpace == {" ", "\t", "\n"}

Range(f) == {f[i] : i \in DOMAIN f}

toLowerCaseChar(c) ==
    IF \E i \in 1..26 : UpperCase[i] = c
    THEN LowerCase[CHOOSE i \in 1..26 : UpperCase[i] = c]
    ELSE c

toLowerCase(s) == [i \in 1..Len(s) |-> toLowerCaseChar(s[i])]

RECURSIVE trimStart(_)
trimStart(s) ==
    IF s # <<>> /\ Head(s) \in WhiteSpace THEN trimStart(Tail(s)) ELSE s

RECURSIVE trimEnd(_)
trimEnd(s) ==
    IF s # <<>> /\ s[Len(s)] \in WhiteSpace
    THEN trimEnd(SubSeq(s, 1, Len(s) - 1))
    ELSE s

\* String.prototype.trim
trim(s) == trimEnd(trimStart(s))

\* String.prototype.substring(0, n)
substring0(s, n) == IF Len(s) <= n THEN s ELSE SubSeq(s, 1, n)

\* s.replace(/[^a-z0-9\s]/g, '')
stripSpecial(s) ==
    SelectSeq(s, LAMBDA c : c \in Range(LowerCase) \cup Digits \cup WhiteSpace)

\* collapseWhiteSpace with /\s/g for /\s+/g: one "_" per white-space character.
collapseWhiteSpace_each(s) ==
    [i \in 1..Len(s) |-> IF s[i] \in WhiteSpace THEN "_" ELSE s[i]]

\* s.replace(/\s+/g, '_'): every maximal run of white space becomes one "_".
RECURSIVE collapseWhiteSpace(_)
collapseWhiteSpace(s) ==
    IF s = <<>> THEN <<>>
    ELSE IF Head(s) \in WhiteSpace
         THEN <<"_">> \o collapseWhiteSpace(trimStart(s))
         ELSE <<Head(s)>> \o collapseWhiteSpace(Tail(s))

\* s.replace(/[:.]/g, '-')
replaceColonDot(s) == [i \in 1..Len(s) |-> IF s[i] \in {":", "."} THEN "-" ELSE s[i]]

\* list.join(sep), for a list of texts
RECURSIVE joinWith(_, _)
joinWith(list, sep) ==
    IF list = <<>> THEN <<>>
    ELSE IF Len(list) = 1 THEN list[1]
    ELSE list[1] \o sep \o joinWith(Tail(list), sep)

(* ------------------------------ paths --------------------------------- *)

\* path.isAbsolute (POSIX) on a string.
isAbsolute(p) == p # <<>> /\ p[1] = "/"

\* path.join(dir, name) for a name without separators.
join(dir, name) == IF dir = <<>> THEN name ELSE dir \o <<"/">> \o name

lastSlash(p) ==
    LET at == {i \in 1..Len(p) : p[i] = "/"}
    IN  IF at = {} THEN 0 ELSE CHOOSE i \in at : \A j \in at : j <= i

\* path.dirname (POSIX) for a path without a trailing separator.
dirname(p) ==
    LET k == lastSlash(p) IN
    IF k = 0 THEN <<".">>
    ELSE IF k = 1 THEN <<"/">>
    ELSE SubSeq(p, 1, k - 1)


(* ------------------------------ errors -------------------------------- *)

\* errors.ts: both factories build an McpError; the kind is what the spec's
\* taxonomy distinguishes.
validationError(msg) == [kind |-> "validation", mcp |-> TRUE, msg |-> msg]

processingError(msg) == [kind |-> "processing", mcp |-> TRUE, msg |-> msg]

\* Any thrown value that is not an McpError (TypeError, a native fs error...).
foreignError(name, msg) == [kind |-> name, mcp |-> FALSE, msg |-> msg]

NoError == [kind |-> "none", mcp |-> FALSE, msg |-> <<>>]

(* --------------------------- configuration ---------------------------- *)

\* The model identifiers of the tool's input schema.
FluxModels == << <<"flux-1.1-pro">>, <<"flux-pro">>, <<"flux-schnell">>, <<"flux-ultra">> >>

DefaultWidth == 1024

DefaultHeight == 768

DefaultQuality == 80

\* ReplicateClient.getAvailableModels
getAvailableModels == FluxModels

\* ReplicateClient.isModelSupported: membership of the supported set.
isModelSupported(m) == m.t = "string" /\ m.s \in Range(getAvailableModels)

\* The configurations getConfig can return: the default model comes from the
\* environment, so it may or may not be one of the supported identifiers.
Configs ==
    { [defaultModel |-> Str(m), outputQuality |-> Num(DefaultQuality),
       outputFormat |-> <<"p","n","g">>, workingDirectory |-> <<"/", "wd">>]
      : m \in { <<"flux-1.1-pro">>, <<"flux-dev">> } }

NoConfig ==
    [defaultModel |-> Undef, outputQuality |-> Undef,
     outputFormat |-> <<>>, workingDirectory |-> <<>>]

\* calculateCost(model): a static lookup on the model identifier.
calculateCost(model) == <<"rate[">> \o model \o <<"]">>

(* ------------------------- the path resolver -------------------------- *)

\* new Date().toISOString() at second `now` of the model's epoch.
toISOString(now) ==
    <<"2","0","2","5","-","0","1","-","0","1","T","0","0",":","0","0",":",
      ToString((now \div 10) % 6), ToString(now % 10), ".","0","0","0","Z">>

\* FluxMcpServer.generateFilename
generateFilename(prompt, format, now) ==
    LET cleanPrompt ==
            substring0(collapseWhiteSpace(stripSpecial(toLowerCase(prompt))), 50)
        timestamp == substring0(replaceColonDot(toISOString(now)), 19)
    IN  cleanPrompt \o <<"_">> \o timestamp \o <<".">> \o format

\* resolveOutputPath moving a supplied path into the working directory
\* (join(workingDirectory, basename(outputPath))).
resolveOutputPath_relocated(outputPath, prompt, defaultFormat, wd, now) ==
    IF Truthy(outputPath)
    THEN IF outputPath.t # "string"
         THEN [err |-> foreignError("TypeError",
                         <<"The \"path\" argument must be of type string">>),
               path |-> <<>>]
         ELSE IF ~isAbsolute(outputPath.s)
         THEN [err |-> validationError(
                         <<"output_path must be an absolute path. Relative paths are not supported because the client and server may run in different environments.">>),
               path |-> <<>>]
         ELSE [err |-> NoError,
               path |-> join(wd, SubSeq(outputPath.s, lastSlash(outputPath.s) + 1,
                                        Len(outputPath.s)))]
    ELSE [err |-> NoError,
          path |-> join(wd, generateFilename(prompt, defaultFormat, now))]

\* FluxMcpServer.resolveOutputPath: [err, path]; err is NoError on return.
resolveOutputPath(outputPath, prompt, defaultFormat, wd, now) ==
    IF Truthy(outputPath)
    THEN IF outputPath.t # "string"
         THEN [err |-> foreignError("TypeError",
                         <<"The \"path\" argument must be of type string">>),
               path |-> <<>>]
         ELSE IF ~isAbsolute(outputPath.s)
         THEN [err |-> validationError(
                         <<"output_path must be an absolute path. Relative paths are not supported because the client and server may run in different environments.">>),
               path |-> <<>>]
         ELSE [err |-> NoError, path |-> outputPath.s]
    ELSE [err |-> NoError,
          path |-> join(wd, generateFilename(prompt, defaultFormat, now))]

(* ---------------------- the tool call's arguments ---------------------- *)

\* request.params.arguments: absent, a primitive (every property read gives
\* undefined) or an object with the properties below.
Bag(kind, prompt, output_path, model, width, height, quality) ==
    [kind |-> kind, prompt |-> prompt, output_path |-> output_path,
     model |-> model, width |-> width, height |-> height, quality |-> quality]

AbsentArgs == Bag("undefined", Undef, Undef, Undef, Undef, Undef, Undef)

PrimitiveArgs == Bag("primitive", Undef, Undef, Undef, Undef, Undef, Undef)

\* Line 163: the prompt is missing, not a string, or blank.
PromptRejected(prompt) ==
    \/ ~Truthy(prompt)
    \/ prompt.t # "string"
    \/ Len(trim(prompt.s)) = 0

\* ModelRejected accepting every string.
ModelRejected_anyString(modelParam) == modelParam.t # "string"

\* Line 184: the model is not one the client supports.
ModelRejected(modelParam) == ~isModelSupported(modelParam)

\* handleGenerateImage, lines 161-199: everything before the first await.
\* err is NoError when the function reaches the try block.
Prepare(args, cfg, wd, now) ==
    LET none == [prompt |-> <<>>, path |-> <<>>, model |-> Undef,
                 width |-> Undef, height |-> Undef, quality |-> Undef]
    IN
    IF args.kind = "undefined"
    THEN [err |-> foreignError("TypeError",
                    <<"Cannot read properties of undefined (reading 'prompt')">>),
          stage |-> "prompt"] @@ none
    ELSE IF PromptRejected(args.prompt)
    THEN [err |-> validationError(
                    <<"Prompt is required and must be a non-empty string">>),
          stage |-> "prompt"] @@ none
    ELSE
    LET prompt == trim(args.prompt.s)
        resolved == resolveOutputPath(args.output_path, prompt,
                                      cfg.outputFormat, wd, now)
        modelParam == OrElse(args.model, cfg.defaultModel)
        width == OrElse(args.width, Num(DefaultWidth))
        height == OrElse(args.height, Num(DefaultHeight))
        quality == OrElse(args.quality, cfg.outputQuality)
        vals == [prompt |-> prompt, path |-> resolved.path, model |-> modelParam,
                 width |-> width, height |-> height, quality |-> quality]
    IN
    IF resolved.err # NoError
    THEN [err |-> resolved.err, stage |-> "output_path"] @@ none
    ELSE IF ModelRejected(modelParam)
    THEN [err |-> validationError(
                    <<"Unsupported model: ">> \o Template(modelParam)
                    \o <<". Supported models: ">>
                    \o joinWith(getAvailableModels, <<", ">>)),
          stage |-> "model"] @@ none
    ELSE [err |-> NoError, stage |-> "try"] @@ vals

(* ----------------------------- responses ------------------------------ *)

NoResponse == [kind |-> "none", text |-> <<>>, isError |-> FALSE]

\* ErrorPayload with the catch rethrowing what is not an McpError.
ErrorPayload_rethrow(err) ==
    IF err.mcp
    THEN [kind |-> "error", text |-> <<"Error: ">> \o err.msg, isError |-> TRUE]
    ELSE [kind |-> "thrown", text |-> err.msg, isError |-> TRUE]

\* ErrorPayload reporting the message of whatever was thrown.
ErrorPayload_anyMessage(err) ==
    [kind |-> "error", text |-> <<"Error: ">> \o err.msg, isError |-> TRUE]

\* The CallToolRequestSchema handler's catch block, lines 106-119.
ErrorPayload(err) ==
    LET mcpError == IF err.mcp THEN err
                    ELSE processingError(<<"Unknown error occurred">>)
    IN  [kind |-> "error", text |-> <<"Error: ">> \o mcpError.msg, isError |-> TRUE]

\* The success payload, lines 246-253.  The payload carries no isError
\* property; the field is FALSE for its absence.
SuccessPayload(processResult, model, result, wd) ==
    [kind |-> "success",
     text |-> <<"Image generated successfully!\n\nOutput: ">> \o processResult.outputPath
              \o <<"\nModel: ">> \o model
              \o <<"\nDimensions: ">> \o Template(processResult.width)
              \o <<"x">> \o Template(processResult.height)
              \o <<"\nFile size: ", ToString((2 * processResult.fileSize + 1024) \div 2048), "KB">>
              \o <<"\nProcessing time: ", ToString(result.processingTime), "ms">>
              \o <<"\nCost: $">> \o calculateCost(model)
              \o <<"\nWorking Directory: ">> \o wd,
     isError |-> FALSE]

(* ------------------------------- inputs ------------------------------- *)

\* The two tool calls the transport may have in flight at once.
Reqs == {"r1", "r2"}

\* The two termination signals main() listens to.
Signals == {"SIGINT", "SIGTERM"}

ValidPrompt == Str(<<" ", "A", " ", "F", "o", "x", "!", " ">>)

Prompts == {Undef, Num(42), Str(<<>>), Str(<<" ", "\t">>), ValidPrompt}

AbsolutePath == Str(<<"/", "out", "/", "a.png">>)

RelativePath == Str(<<"out", "/", "a.png">>)

\* An absolute path in the root directory, with another extension than the
\* configured format.
RootPath == Str(<<"/", "b.jpeg">>)

OutputPaths == {Undef, Str(<<>>), RelativePath, AbsolutePath, RootPath, Num(7)}

ModelArgs == {Undef, Str(<<"flux-schnell">>), Str(<<"sdxl">>), Num(3)}

Widths == {Undef, Num(0), Num(512)}

Heights == {Undef, Num(0), Num(600)}

Qualities == {Undef, Num(0), Num(95)}

\* Every argument bag: absent, a primitive, or any combination of properties.
AllBags ==
    {AbsentArgs, PrimitiveArgs} \cup
    { Bag("object", p, o, m, w, h, q) :
        p \in Prompts, o \in OutputPaths, m \in ModelArgs,
        w \in Widths, h \in Heights, q \in Qualities }

\* The bags used when two calls overlap: one per validation outcome.
FewBags ==
    { AbsentArgs,
      Bag("object", Str(<<" ">>), Undef, Undef, Undef, Undef, Undef),
      Bag("object", ValidPrompt, RelativePath, Undef, Undef, Undef, Undef),
      Bag("object", ValidPrompt, Undef, Str(<<"sdxl">>), Undef, Undef, Undef),
      Bag("object", ValidPrompt, Undef, Str(<<"flux-schnell">>), Undef, Undef, Undef),
      Bag("object", ValidPrompt, AbsolutePath, Str(<<"flux-schnell">>), Undef, Undef, Undef) }

\* What generateImage can resolve to: no URL, a first URL that is the empty
\* string, one URL, two URLs.
GenResults ==
    { [imageUrls |-> u, processingTime |-> 1500] :
        u \in { <<>>, << <<>> >>, << <<"https://r/1">> >>,
                << <<"https://r/1">>, <<"https://r/2">> >> } }

\* What the remote client and the image processor can reject with: the
\* processing error of their contract, or anything else they let through.
ExternalErrors ==
    { processingError(<<"Replicate API error">>),
      foreignError("Error", <<"socket hang up">>) }

\* What fs.mkdir rejects with: a native error, never an McpError.
MkdirErrors == { foreignError("Error", <<"EACCES: permission denied, mkdir">>) }

(* -------------------------------- state ------------------------------- *)

VARIABLES
    mainPc,            \* where start() is: "start", "ensureWD", "connect", "running"
    proc,              \* "running", "exit(0)" or "exit(1)"
    config,            \* what getConfig returns
    workingDirectory,  \* FluxMcpServer.workingDirectory
    closed,            \* server.close() has completed
    sd,                \* per signal: "idle", "cleanupAll", "close", "exit"
    sdCleaned,         \* a shutdown's cleanupAll has completed
    tracked,           \* the TempManager's tracked set (by owning request)
    fsDirs,            \* directories created by fs.mkdir
    fsFiles,           \* files written by processImage
    now,               \* the wall clock, in seconds
    req                \* per request: its position and what it has done

vars == <<mainPc, proc, config, workingDirectory, closed, sd, sdCleaned,
          tracked, fsDirs, fsFiles, now, req>>

NoParams == [prompt |-> <<>>, model |-> Undef, width |-> Undef, height |-> Undef,
             outputPath |-> <<>>, quality |-> Undef]

NoResult == [imageUrls |-> <<>>, processingTime |-> 0]

IdleReq ==
    [pc |-> "idle",            \* "idle", an awaited call's name, or "done"
     args |-> AbsentArgs,      \* request.params.arguments
     path |-> <<>>,            \* resolvedOutputPath
     model |-> Undef,
     quality |-> Undef,
     genParams |-> NoParams,   \* what generateImage was called with
     procParams |-> NoParams,  \* what processImage was called with
     result |-> NoResult,      \* what generateImage resolved to
     tool |-> <<>>,            \* request.params.name
     at |-> 0,                 \* the second at which the handler ran
     calls |-> <<>>,           \* the stages invoked, in order
     returned |-> <<>>,        \* the awaited calls that resolved, in order
     dir |-> <<>>,             \* what fs.mkdir was called with
     stage |-> "none",         \* the stage that raised, "none" if none did
     raised |-> NoError,       \* the error raised in handleGenerateImage
     cleanups |-> 0,           \* completed cleanupAll calls of this request
     trackedAtRaise |-> FALSE, \* the tracked set was non-empty at the raise
     trackedAtResp |-> FALSE,  \* ... and when the response was returned
     resp |-> NoResponse]      \* what the call-tool handler returned

Init ==
    /\ mainPc = "start"
    /\ proc = "running"
    /\ config = NoConfig
    /\ workingDirectory = <<>>
    /\ closed = FALSE
    /\ sd = [s \in Signals |-> "idle"]
    /\ sdCleaned = FALSE
    /\ tracked = {}
    /\ fsDirs = {}
    /\ fsFiles = {}
    /\ now = 0
    /\ req = [r \in Reqs |-> IdleReq]

(* ------------------------------ start-up ------------------------------ *)

Alive == proc = "running"

\* start(), line 268: getConfig returns.
StartGetConfig(c) ==
    /\ Alive /\ mainPc = "start"
    /\ config' = c
    /\ mainPc' = "ensureWD"
    /\ UNCHANGED <<proc, workingDirectory, closed, sd, sdCleaned, tracked,
                   fsDirs, fsFiles, now, req>>

\* start(), lines 271-279: ensureWorkingDirectory resolves, the directory is
\* stored and server.connect is called.
StartEnsured ==
    /\ Alive /\ mainPc = "ensureWD"
    /\ workingDirectory' = config.workingDirectory
    /\ mainPc' = "connect"
    /\ UNCHANGED <<proc, config, closed, sd, sdCleaned, tracked,
                   fsDirs, fsFiles, now, req>>

\* start(), lines 279-283: server.connect resolves.
StartConnected ==
    /\ Alive /\ mainPc = "connect"
    /\ mainPc' = "running"
    /\ UNCHANGED <<proc, config, workingDirectory, closed, sd, sdCleaned,
                   tracked, fsDirs, fsFiles, now, req>>

\* StartFailed with the catch swallowing the failure: the server goes on as
\* if it had started.
StartFailed_swallowed ==
    /\ Alive /\ mainPc \in {"start", "ensureWD", "connect"}
    /\ mainPc' = "running"
    /\ UNCHANGED <<proc, config, workingDirectory, closed, sd, sdCleaned,
                   tracked, fsDirs, fsFiles, now, req>>

\* start(), lines 284-287: getConfig, ensureWorkingDirectory or connect
\* throws; the catch logs and exits with code 1.
StartFailed ==
    /\ Alive /\ mainPc \in {"start", "ensureWD", "connect"}
    /\ proc' = "exit(1)"
    /\ UNCHANGED <<mainPc, config, workingDirectory, closed, sd, sdCleaned,
                   tracked, fsDirs, fsFiles, now, req>>

(* --------------------------- the tool call ----------------------------- *)

\* The handler returns `payload` for request record `rec`.
Respond(rec, payload, trk) ==
    [rec EXCEPT !.pc = "done", !.resp = payload, !.trackedAtResp = (trk # {})]

\* handleGenerateImage's catch, lines 255-257: err is caught and cleanupAll
\* is called and awaited.
Caught(rec, stage, err, trk) ==
    [rec EXCEPT !.pc = "cleanupAll", !.stage = stage, !.raised = err,
                !.trackedAtRaise = (trk # {})]

\* CheckResult without the length check: the first element of an empty
\* list is undefined, which the second check reports.
CheckResult_noLengthCheck(result) ==
    IF Len(result.imageUrls) = 0 \/ result.imageUrls[1] = <<>>
    THEN processingError(<<"No valid image URL returned">>)
    ELSE NoError

\* Lines 210-218: the checks on generateImage's result.
CheckResult(result) ==
    IF Len(result.imageUrls) = 0
    THEN processingError(<<"No images were generated">>)
    ELSE IF result.imageUrls[1] = <<>>
    THEN processingError(<<"No valid image URL returned">>)
    ELSE NoError

\* Arrive behind a lock: a call is taken up only when no other is in flight.
Arrive_serialised(r, bags) ==
    /\ Alive /\ mainPc = "running" /\ ~closed
    /\ req[r].pc = "idle"
    /\ \A q \in Reqs : req[q].pc \in {"idle", "done"}
    /\ \E args \in bags :
       LET p == Prepare(args, config, workingDirectory, now)
           resolving == IF p.stage = "prompt" THEN <<>> ELSE <<"resolveOutputPath">>
       IN  req' = [req EXCEPT ![r] =
             IF p.err # NoError
             THEN Respond([@ EXCEPT !.tool = <<"generate_image">>, !.at = now,
                                    !.args = args, !.calls = resolving,
                                    !.stage = p.stage, !.raised = p.err,
                                    !.trackedAtRaise = (tracked # {})],
                          ErrorPayload(p.err), tracked)
             ELSE [@ EXCEPT !.pc = "generateImage", !.args = args,
                            !.tool = <<"generate_image">>, !.at = now,
                            !.path = p.path, !.model = p.model,
                            !.quality = p.quality,
                            !.genParams = [NoParams EXCEPT
                                !.prompt = p.prompt, !.model = p.model,
                                !.width = p.width, !.height = p.height],
                            !.calls = resolving \o <<"generateImage">>]]
    /\ UNCHANGED <<mainPc, proc, config, workingDirectory, closed, sd,
                   sdCleaned, tracked, fsDirs, fsFiles, now>>

\* A generate_image call arrives with one of `bags` as its arguments: lines
\* 100-105 and 161-208.  Either the synchronous part throws and the outer
\* catch (106-119) answers at once, or generateImage is called and the
\* handler is suspended on it.
Arrive(r, bags) ==
    /\ Alive /\ mainPc = "running" /\ ~closed
    /\ req[r].pc = "idle"
    /\ \E args \in bags :
       LET p == Prepare(args, config, workingDirectory, now)
           resolving == IF p.stage = "prompt" THEN <<>> ELSE <<"resolveOutputPath">>
       IN  req' = [req EXCEPT ![r] =
             IF p.err # NoError
             THEN Respond([@ EXCEPT !.tool = <<"generate_image">>, !.at = now,
                                    !.args = args, !.calls = resolving,
                                    !.stage = p.stage, !.raised = p.err,
                                    !.trackedAtRaise = (tracked # {})],
                          ErrorPayload(p.err), tracked)
             ELSE [@ EXCEPT !.pc = "generateImage", !.args = args,
                            !.tool = <<"generate_image">>, !.at = now,
                            !.path = p.path, !.model = p.model,
                            !.quality = p.quality,
                            !.genParams = [NoParams EXCEPT
                                !.prompt = p.prompt, !.model = p.model,
                                !.width = p.width, !.height = p.height],
                            !.calls = resolving \o <<"generateImage">>]]
    /\ UNCHANGED <<mainPc, proc, config, workingDirectory, closed, sd,
                   sdCleaned, tracked, fsDirs, fsFiles, now>>

\* UnknownTool with the error thrown inside the try block, so that the catch
\* returns it as an error payload.
UnknownTool_payload(r, names) ==
    /\ Alive /\ mainPc = "running" /\ ~closed
    /\ req[r].pc = "idle"
    /\ \E name \in names, args \in {AbsentArgs, PrimitiveArgs} :
         /\ name # <<"generate_image">>
         /\ LET err == validationError(<<"Unknown tool: ">> \o name)
            IN  req' = [req EXCEPT ![r] =
                  Respond([@ EXCEPT !.tool = name, !.at = now, !.args = args,
                                    !.stage = "dispatch", !.raised = err,
                                    !.trackedAtRaise = (tracked # {})],
                          ErrorPayload(err), tracked)]
    /\ UNCHANGED <<mainPc, proc, config, workingDirectory, closed, sd,
                   sdCleaned, tracked, fsDirs, fsFiles, now>>

\* A tool call with another name than generate_image arrives (lines 101-103
\* and 122): the handler throws the validation error "Unknown tool: <name>"
\* to the transport.  The response's kind "thrown" stands for the rejection.
UnknownTool(r, names) ==
    /\ Alive /\ mainPc = "running" /\ ~closed
    /\ req[r].pc = "idle"
    /\ \E name \in names, args \in {AbsentArgs, PrimitiveArgs} :
         /\ name # <<"generate_image">>
         /\ LET err == validationError(<<"Unknown tool: ">> \o name)
            IN  req' = [req EXCEPT ![r] =
                  Respond([@ EXCEPT !.tool = name, !.at = now, !.args = args,
                                    !.stage = "dispatch", !.raised = err,
                                    !.trackedAtRaise = (tracked # {})],
                          [kind |-> "thrown", text |-> err.msg, isError |-> FALSE],
                          tracked)]
    /\ UNCHANGED <<mainPc, proc, config, workingDirectory, closed, sd,
                   sdCleaned, tracked, fsDirs, fsFiles, now>>

\* GenerateReturns with the target's directory created before the download.
GenerateReturns_mkdirEarly(r, result) ==
    /\ Alive /\ req[r].pc = "generateImage"
    /\ fsDirs' = fsDirs \cup {dirname(req[r].path)}
    /\ req' = [req EXCEPT ![r] =
         IF CheckResult(result) # NoError
         THEN Caught([@ EXCEPT !.result = result,
                               !.returned = @ \o <<"generateImage">>], "result",
                     CheckResult(result), tracked)
         ELSE [@ EXCEPT !.pc = "downloadImage", !.result = result,
                        !.returned = @ \o <<"generateImage">>,
                        !.calls = @ \o <<"downloadImage">>]]
    /\ UNCHANGED <<mainPc, proc, config, workingDirectory, closed, sd,
                   sdCleaned, tracked, fsFiles, now>>

\* generateImage resolves (lines 203-220): the result is checked and the
\* first URL is handed to downloadImage.
GenerateReturns(r, result) ==
    /\ Alive /\ req[r].pc = "generateImage"
    /\ req' = [req EXCEPT ![r] =
         IF CheckResult(result) # NoError
         THEN Caught([@ EXCEPT !.result = result,
                               !.returned = @ \o <<"generateImage">>], "result",
                     CheckResult(result), tracked)
         ELSE [@ EXCEPT !.pc = "downloadImage", !.result = result,
                        !.returned = @ \o <<"generateImage">>,
                        !.calls = @ \o <<"downloadImage">>]]
    /\ UNCHANGED <<mainPc, proc, config, workingDirectory, closed, sd,
                   sdCleaned, tracked, fsDirs, fsFiles, now>>

\* GenerateThrows with one retry: the first rejection calls generateImage again.
GenerateThrows_retry(r, e) ==
    /\ Alive /\ req[r].pc = "generateImage"
    /\ req' = [req EXCEPT ![r] =
         IF Len(SelectSeq(req[r].calls, LAMBDA c : c = "generateImage")) = 1
         THEN [@ EXCEPT !.calls = @ \o <<"generateImage">>]
         ELSE Caught(@, "generateImage", e, tracked)]
    /\ UNCHANGED <<mainPc, proc, config, workingDirectory, closed, sd,
                   sdCleaned, tracked, fsDirs, fsFiles, now>>

\* generateImage rejects.
GenerateThrows(r, e) ==
    /\ Alive /\ req[r].pc = "generateImage"
    /\ req' = [req EXCEPT ![r] = Caught(@, "generateImage", e, tracked)]
    /\ UNCHANGED <<mainPc, proc, config, workingDirectory, closed, sd,
                   sdCleaned, tracked, fsDirs, fsFiles, now>>

\* downloadImage resolves (lines 220-224); it may have left an intermediate
\* file with the tracker.  fs.mkdir is called on the target's directory.
DownloadReturns(r, tracks) ==
    /\ Alive /\ req[r].pc = "downloadImage"
    /\ tracked' = IF tracks THEN tracked \cup {r} ELSE tracked
    /\ req' = [req EXCEPT ![r] =
         [@ EXCEPT !.pc = "mkdir", !.dir = dirname(req[r].path),
                   !.returned = @ \o <<"downloadImage">>,
                   !.calls = @ \o <<"mkdir">>]]
    /\ UNCHANGED <<mainPc, proc, config, workingDirectory, closed, sd,
                   sdCleaned, fsDirs, fsFiles, now>>

\* downloadImage rejects.
DownloadThrows(r, e, tracks) ==
    /\ Alive /\ req[r].pc = "downloadImage"
    /\ tracked' = IF tracks THEN tracked \cup {r} ELSE tracked
    /\ req' = [req EXCEPT ![r] = Caught(@, "downloadImage", e, tracked')]
    /\ UNCHANGED <<mainPc, proc, config, workingDirectory, closed, sd,
                   sdCleaned, fsDirs, fsFiles, now>>

\* fs.mkdir resolves (lines 224-232): the directory exists and processImage
\* is called with the resolved path, quality, width and height.
MkdirReturns(r) ==
    /\ Alive /\ req[r].pc = "mkdir"
    /\ fsDirs' = fsDirs \cup {req[r].dir}
    /\ req' = [req EXCEPT ![r] =
         [@ EXCEPT !.pc = "processImage",
                   !.procParams = [NoParams EXCEPT
                       !.outputPath = req[r].path, !.quality = req[r].quality,
                       !.width = req[r].genParams.width,
                       !.height = req[r].genParams.height],
                   !.returned = @ \o <<"mkdir">>,
                   !.calls = @ \o <<"processImage">>]]
    /\ UNCHANGED <<mainPc, proc, config, workingDirectory, closed, sd,
                   sdCleaned, tracked, fsFiles, now>>

\* fs.mkdir rejects.
MkdirThrows(r, e) ==
    /\ Alive /\ req[r].pc = "mkdir"
    /\ req' = [req EXCEPT ![r] = Caught(@, "mkdir", e, tracked)]
    /\ UNCHANGED <<mainPc, proc, config, workingDirectory, closed, sd,
                   sdCleaned, tracked, fsDirs, fsFiles, now>>

\* processImage resolves (lines 227-253): the file is written, its
\* intermediate is released, the cost is computed and the success payload
\* is returned.
ProcessReturns(r) ==
    /\ Alive /\ req[r].pc = "processImage"
    /\ fsFiles' = fsFiles \cup {req[r].procParams.outputPath}
    /\ tracked' = tracked \ {r}
    /\ LET processResult ==
               [outputPath |-> req[r].procParams.outputPath,
                width |-> req[r].procParams.width,
                height |-> req[r].procParams.height,
                fileSize |-> 200000]
       IN  req' = [req EXCEPT ![r] =
             Respond([@ EXCEPT !.returned = @ \o <<"processImage">>,
                               !.calls = @ \o <<"calculateCost">>],
                     SuccessPayload(processResult, req[r].model.s,
                                    req[r].result, workingDirectory),
                     tracked')]
    /\ UNCHANGED <<mainPc, proc, config, workingDirectory, closed, sd,
                   sdCleaned, fsDirs, now>>

\* ProcessThrows with the rejection swallowed and success reported.
ProcessThrows_swallowed(r, e) ==
    /\ Alive /\ req[r].pc = "processImage"
    /\ req' = [req EXCEPT ![r] =
         Respond(@, SuccessPayload(
                       [outputPath |-> req[r].procParams.outputPath,
                        width |-> req[r].procParams.width,
                        height |-> req[r].procParams.height, fileSize |-> 0],
                       req[r].model.s, req[r].result, workingDirectory),
                 tracked)]
    /\ UNCHANGED <<mainPc, proc, config, workingDirectory, closed, sd,
                   sdCleaned, tracked, fsDirs, fsFiles, now>>

\* processImage rejects.
ProcessThrows(r, e) ==
    /\ Alive /\ req[r].pc = "processImage"
    /\ req' = [req EXCEPT ![r] = Caught(@, "processImage", e, tracked)]
    /\ UNCHANGED <<mainPc, proc, config, workingDirectory, closed, sd,
                   sdCleaned, tracked, fsDirs, fsFiles, now>>

\* CleanupReturns without the rethrow: the handler returns nothing.
CleanupReturns_noRethrow(r) ==
    /\ Alive /\ req[r].pc = "cleanupAll"
    /\ tracked' = {}
    /\ req' = [req EXCEPT ![r] =
         Respond([@ EXCEPT !.cleanups = @ + 1], NoResponse, tracked')]
    /\ UNCHANGED <<mainPc, proc, config, workingDirectory, closed, sd,
                   sdCleaned, fsDirs, fsFiles, now>>

\* cleanupAll resolves in handleGenerateImage's catch (lines 257-258): the
\* tracked set is drained, the error is rethrown and the outer catch
\* (106-119) turns it into the error payload.
CleanupReturns(r) ==
    /\ Alive /\ req[r].pc = "cleanupAll"
    /\ tracked' = {}
    /\ req' = [req EXCEPT ![r] =
         Respond([@ EXCEPT !.cleanups = @ + 1],
                 ErrorPayload(req[r].raised), tracked')]
    /\ UNCHANGED <<mainPc, proc, config, workingDirectory, closed, sd,
                   sdCleaned, fsDirs, fsFiles, now>>

(* ------------------------------ shutdown ------------------------------- *)

\* main(), lines 307-315, and shutdown(), lines 293-295: the signal's
\* handler runs and calls cleanupAll.
Signal(s) ==
    /\ Alive /\ sd[s] = "idle"
    /\ sd' = [sd EXCEPT ![s] = "cleanupAll"]
    /\ UNCHANGED <<mainPc, proc, config, workingDirectory, closed, sdCleaned,
                   tracked, fsDirs, fsFiles, now, req>>

\* ShutdownCleaned with server.close not awaited: the handler exits at once.
ShutdownCleaned_closeNotAwaited(s) ==
    /\ Alive /\ sd[s] = "cleanupAll"
    /\ tracked' = {}
    /\ sdCleaned' = TRUE
    /\ sd' = [sd EXCEPT ![s] = "exit"]
    /\ proc' = "exit(0)"
    /\ UNCHANGED <<mainPc, config, workingDirectory, closed,
                   fsDirs, fsFiles, now, req>>

\* shutdown(), lines 295-296: cleanupAll resolves and server.close is called.
ShutdownCleaned(s) ==
    /\ Alive /\ sd[s] = "cleanupAll"
    /\ tracked' = {}
    /\ sdCleaned' = TRUE
    /\ sd' = [sd EXCEPT ![s] = "close"]
    /\ UNCHANGED <<mainPc, proc, config, workingDirectory, closed,
                   fsDirs, fsFiles, now, req>>

\* Lines 296 and 309/314: server.close resolves, shutdown returns and the
\* handler calls process.exit(0).
ShutdownClosed(s) ==
    /\ Alive /\ sd[s] = "close"
    /\ closed' = TRUE
    /\ sd' = [sd EXCEPT ![s] = "exit"]
    /\ proc' = "exit(0)"
    /\ UNCHANGED <<mainPc, config, workingDirectory, sdCleaned, tracked,
                   fsDirs, fsFiles, now, req>>

\* The wall clock advances.
Tick ==
    /\ Alive /\ now < MaxTime
    /\ now' = now + 1
    /\ UNCHANGED <<mainPc, proc, config, workingDirectory, closed, sd,
                   sdCleaned, tracked, fsDirs, fsFiles, req>>

(* --------------------------- specifications ---------------------------- *)

\* start() with the configurations of the set cs.
Start(cs) ==
    \/ \E c \in cs : StartGetConfig(c)
    \/ StartEnsured
    \/ StartConnected
    \/ StartFailed

Pipeline(r) ==
    \/ \E result \in GenResults : GenerateReturns(r, result)
    \/ \E e \in ExternalErrors : GenerateThrows(r, e)
    \/ \E tracks \in BOOLEAN : DownloadReturns(r, tracks)
    \/ \E e \in ExternalErrors, tracks \in BOOLEAN : DownloadThrows(r, e, tracks)
    \/ MkdirReturns(r)
    \/ \E e \in MkdirErrors : MkdirThrows(r, e)
    \/ ProcessReturns(r)
    \/ \E e \in ExternalErrors : ProcessThrows(r, e)
    \/ CleanupReturns(r)

Shutdown(s) == Signal(s) \/ ShutdownCleaned(s) \/ ShutdownClosed(s)

\* The configurations whose default model is supported.
GoodConfigs == {c \in Configs : isModelSupported(c.defaultModel)}

\* Two overlapping calls and the clock.
Next ==
    \/ Start(GoodConfigs)
    \/ \E r \in Reqs : Arrive(r, FewBags)
    \/ \E r \in Reqs : Pipeline(r)
    \/ Tick

Spec == Init /\ [][Next]_vars

\* One call with every argument bag and every configuration.
NextArgs ==
    \/ Start(Configs)
    \/ Arrive("r1", AllBags)
    \/ Pipeline("r1")

SpecArgs == Init /\ [][NextArgs]_vars

\* One call and the two termination signals, from start-up on.
NextSignals ==
    \/ Start(GoodConfigs)
    \/ Arrive("r1", FewBags)
    \/ Pipeline("r1")
    \/ \E s \in Signals : Shutdown(s)

SpecSignals == Init /\ [][NextSignals]_vars

\* Two overlapping calls without signals, every pending external call of
\* which eventually returns or rejects.
NextLive ==
    \/ Start(GoodConfigs)
    \/ \E r \in Reqs : Arrive(r, FewBags)
    \/ \E r \in Reqs : Pipeline(r)

SpecLive == Init /\ [][NextLive]_vars /\ \A r \in Reqs : WF_vars(Pipeline(r))

\* Tool names other than generate_image: another tool, another spelling, "".
OtherTools == {<<"list_models">>, <<"Generate_Image">>, <<>>}

\* Calls of generate_image and of other tool names, overlapping.
NextTools ==
    \/ Start(GoodConfigs)
    \/ \E r \in Reqs : UnknownTool(r, OtherTools)
    \/ \E r \in Reqs : Arrive(r, FewBags)
    \/ \E r \in Reqs : Pipeline(r)

SpecTools == Init /\ [][NextTools]_vars

(* ------------------------------- claims -------------------------------- *)

\* The requests that have been answered.
Answered == {r \in Reqs : req[r].pc = "done"}

\* The requests that have arrived.
Arrived == {r \in Reqs : req[r].pc # "idle"}

\* The stages that touch the remote service or the filesystem.
RemoteCalls == {"generateImage", "downloadImage"}

FsCalls == {"mkdir", "processImage"}

Invoked(r) == Range(req[r].calls)

\* The text of the error payload for a message.
ErrorText(msg) == <<"Error: ">> \o msg

\* The prompt of an argument bag is a string with a non-blank character.
PromptUsable(args) ==
    /\ args.kind # "undefined"
    /\ args.prompt.t = "string"
    /\ \E i \in 1..Len(args.prompt.s) : args.prompt.s[i] \notin WhiteSpace

\* The model a bag asks for: its own when it names one, else the default.
EffectiveModel(args) ==
    IF args.kind # "undefined" /\ Truthy(args.model)
    THEN args.model ELSE config.defaultModel

Supported(m) ==
    /\ m.t = "string"
    /\ m.s \in {<<"flux-1.1-pro">>, <<"flux-pro">>, <<"flux-schnell">>, <<"flux-ultra">>}

\* C1: every generate_image call, whatever its argument bag and whichever
\* stage fails, is answered with a payload: a success payload (summary text,
\* no error flag) or an error payload "Error: <message>" with the error flag
\* set, the message being the raised McpError's or the generic one; no
\* exception leaves the handler.
C1_AlwaysPayload ==
    \A r \in Reqs :
        /\ req[r].raised # NoError => req[r].pc \in {"cleanupAll", "done"}
        /\ req[r].pc = "done" =>
             \/ /\ req[r].resp.kind = "success"
                /\ ~req[r].resp.isError
                /\ req[r].raised = NoError
                /\ Head(req[r].resp.text) = "Image generated successfully!\n\nOutput: "
             \/ /\ req[r].resp.kind = "error"
                /\ req[r].resp.isError
                /\ req[r].raised # NoError
                /\ req[r].resp.text \in
                     {ErrorText(req[r].raised.msg), ErrorText(<<"Unknown error occurred">>)}

\* A call without arguments has been answered with an error payload.
C1_Witness ==
    \E r \in Answered :
        /\ req[r].args = AbsentArgs
        /\ req[r].resp.kind = "error"
        /\ req[r].resp.isError

\* C2 (as claimed): a call whose prompt is missing, not text, empty or blank
\* is answered with the prompt's validation error, and neither generateImage
\* nor downloadImage is invoked for it.
C2_BadPromptIsValidationError ==
    \A r \in Arrived :
        ~PromptUsable(req[r].args) =>
            /\ req[r].pc = "done"
            /\ req[r].raised.kind = "validation"
            /\ req[r].resp.isError
            /\ req[r].resp.text =
                 ErrorText(<<"Prompt is required and must be a non-empty string">>)
            /\ Invoked(r) \cap RemoteCalls = {}

\* C3 (as claimed): a call with a usable prompt and a supplied output_path
\* string that is not absolute is answered with a validation error and makes
\* no remote call and no filesystem operation.
C3_NonAbsolutePathRejected ==
    \A r \in Arrived :
        (/\ PromptUsable(req[r].args)
         /\ req[r].args.output_path.t = "string"
         /\ ~(Len(req[r].args.output_path.s) > 0
              /\ req[r].args.output_path.s[1] = "/")) =>
            /\ req[r].pc = "done"
            /\ req[r].raised.kind = "validation"
            /\ req[r].resp.isError
            /\ Invoked(r) \cap (RemoteCalls \cup FsCalls) = {}

\* The output_path of a bag passes the resolver: none, or an absolute string.
PathUsable(args) ==
    \/ ~Truthy(args.output_path)
    \/ /\ args.output_path.t = "string"
       /\ args.output_path.s[1] = "/"

\* The validation error for an unsupported model, listing the supported ones.
UnsupportedText(m) ==
    <<"Error: ", "Unsupported model: ">> \o Template(m)
    \o <<". Supported models: ", "flux-1.1-pro", ", ", "flux-pro", ", ",
         "flux-schnell", ", ", "flux-ultra">>

C5_EveryErrorCleansUp ==
    \A r \in Answered :
        req[r].resp.kind = "error" =>
            /\ req[r].cleanups >= 1
            /\ req[r].raised.mcp => req[r].resp.text = ErrorText(req[r].raised.msg)

\* C6 (as claimed): a call that fails while the tracked set is non-empty has
\* invoked cleanupAll exactly once, and the tracked set is empty when its
\* error response is returned, whichever stage raised.
C6_CleanupExactlyOnce ==
    \A r \in Answered :
        (req[r].resp.kind = "error" /\ req[r].trackedAtRaise) =>
            /\ req[r].cleanups = 1
            /\ ~req[r].trackedAtResp

\* C7: when generateImage resolves with an empty URL list, neither
\* downloadImage nor mkdir nor processImage is ever invoked for the call,
\* nothing is created on disk, and the call ends with the error flag set and
\* the text "Error: No images were generated".
C7_NoImagesGenerated ==
    \A r \in Reqs :
        (req[r].returned # <<>> /\ req[r].result.imageUrls = <<>>) =>
            /\ req[r].pc \in {"cleanupAll", "done"}
            /\ Invoked(r) \cap ({"downloadImage"} \cup FsCalls) = {}
            /\ req[r].dir \notin fsDirs
            /\ req[r].path \notin fsFiles
            /\ req[r].pc = "done" =>
                 req[r].resp = [kind |-> "error", isError |-> TRUE,
                                text |-> <<"Error: ", "No images were generated">>]

\* generateImage resolved with no URL and the call has been answered.
C7_Witness ==
    \E r \in Answered :
        /\ req[r].returned = <<"generateImage">>
        /\ req[r].result.imageUrls = <<>>
        /\ req[r].resp.isError

\* C8: a success payload is returned only if generateImage resolved with a
\* first URL, downloadImage resolved, the directory was made and processImage
\* wrote the file at the resolved path; every other answer is an error
\* payload.
C8_NoPartialSuccess ==
    \A r \in Answered :
        /\ req[r].resp.kind = "success" =>
             /\ req[r].returned =
                  <<"generateImage", "downloadImage", "mkdir", "processImage">>
             /\ Len(req[r].result.imageUrls) >= 1
             /\ req[r].result.imageUrls[1] # <<>>
             /\ req[r].raised = NoError
             /\ req[r].dir \in fsDirs
             /\ req[r].procParams.outputPath = req[r].path
             /\ req[r].path \in fsFiles
        /\ req[r].resp.kind # "success" =>
             /\ req[r].resp.kind = "error"
             /\ req[r].resp.isError
             /\ Len(req[r].returned) < 4

\* A call has been answered with the success payload and its file exists.
C8_Witness ==
    \E r \in Answered :
        /\ req[r].resp.kind = "success"
        /\ req[r].path \in fsFiles

\* C9: an error that is neither a validation nor a processing error is
\* reported as "Error: Unknown error occurred" with the error flag set; an
\* error of the two known kinds is reported with its own message.
C9_UnknownErrorsNormalised ==
    \A r \in Answered :
        req[r].resp.kind = "error" =>
            /\ req[r].resp.isError
            /\ req[r].raised # NoError
            /\ req[r].resp.text =
                 IF req[r].raised.kind \in {"validation", "processing"}
                 THEN <<"Error: ">> \o req[r].raised.msg
                 ELSE <<"Error: ", "Unknown error occurred">>

\* fs.mkdir's native error has been reported as the generic processing error.
C9_Witness ==
    \E r \in Answered :
        /\ req[r].stage = "mkdir"
        /\ req[r].raised.kind = "Error"
        /\ req[r].raised.msg # <<"Unknown error occurred">>
        /\ req[r].resp.text = <<"Error: ", "Unknown error occurred">>

\* The positions a signal's handler passes through, in order.
ShutdownOrder ==
    {<<"idle", "cleanupAll">>, <<"cleanupAll", "close">>, <<"close", "exit">>}

\* C10: on either signal, in any state of the process, the handler runs
\* cleanupAll, then closes the transport, then exits with code 0: a handler
\* moves through these steps in order, the transport is closed only after a
\* cleanupAll has completed, exit code 0 is reached only after both, and a
\* handler's steps neither wait for a call in flight nor change it.
C10_GracefulShutdown ==
    /\ [](/\ closed => sdCleaned
          /\ proc = "exit(0)" => closed /\ sdCleaned
          /\ \A s \in Signals :
               /\ sd[s] \in {"close", "exit"} => sdCleaned
               /\ sd[s] = "exit" => proc = "exit(0)" /\ closed
               /\ (Alive /\ sd[s] # "exit") => ENABLED Shutdown(s))
    /\ [][\A s \in Signals :
            sd'[s] # sd[s] =>
               /\ <<sd[s], sd'[s]>> \in ShutdownOrder
               /\ req' = req]_vars

\* The process has exited with code 0 on SIGTERM while a call was awaiting
\* the remote service.
C10_Witness ==
    /\ proc = "exit(0)"
    /\ sd["SIGTERM"] = "exit"
    /\ closed /\ sdCleaned
    /\ \E r \in Reqs : req[r].pc = "generateImage"

\* C11: when getConfig throws or ensureWorkingDirectory rejects, the process
\* has exited with a non-zero code without the transport being connected and
\* without any call having been handled; and whenever a call has been
\* handled, start() had completed and the prepared working directory was
\* stored.
C11_StartupFailureHandlesNothing ==
    /\ proc = "exit(1)" =>
         /\ mainPc \in {"start", "ensureWD", "connect"}
         /\ Arrived = {}
    /\ mainPc \in {"start", "ensureWD"} =>
         /\ workingDirectory = <<>>
         /\ Arrived = {}
         /\ ~closed \/ proc = "exit(0)"
    /\ Arrived # {} =>
         /\ mainPc = "running"
         /\ proc # "exit(1)"
         /\ workingDirectory = <<"/", "wd">>
         /\ workingDirectory = config.workingDirectory

\* The working directory could not be prepared: the process has exited with
\* code 1 before server.connect was called.
C11_Witness ==
    /\ proc = "exit(1)"
    /\ mainPc = "ensureWD"
    /\ config \in Configs
    /\ workingDirectory = <<>>
    /\ Arrived = {}

\* The value a downstream component must be handed for a property: the
\* caller's when the caller supplied one, else the default.
Handed(supplied, default) == IF supplied # Undef THEN supplied ELSE default

\* C12 (as claimed): for every valid call, the model, width and height handed
\* to generateImage and the quality, width and height handed to processImage
\* are the caller's values when supplied (0 included) and the defaults only
\* when the caller supplied none.
C12_SuppliedValuesHandedOn ==
    \A r \in Reqs :
        /\ "generateImage" \in Invoked(r) =>
             /\ req[r].genParams.model = Handed(req[r].args.model, config.defaultModel)
             /\ req[r].genParams.width = Handed(req[r].args.width, Num(1024))
             /\ req[r].genParams.height = Handed(req[r].args.height, Num(768))
        /\ "processImage" \in Invoked(r) =>
             /\ req[r].procParams.quality =
                  Handed(req[r].args.quality, config.outputQuality)
             /\ req[r].procParams.width = Handed(req[r].args.width, Num(1024))
             /\ req[r].procParams.height = Handed(req[r].args.height, Num(768))

\* The directory an absolute output_path of the inputs lies in.
ParentOf(p) == IF p = <<"/", "out", "/", "a.png">> THEN <<"/", "out">> ELSE <<"/">>

\* C13: when an absolute output_path is supplied, the resolver returns it
\* unchanged: it is the path handed to processImage as outputPath, the
\* directory created is its parent, and the file is written there, whatever
\* its extension and the working directory.
C13_AbsolutePathUnchanged ==
    \A r \in Reqs :
        (/\ req[r].args.output_path \in {AbsolutePath, RootPath}
         /\ "resolveOutputPath" \in Invoked(r)) =>
            /\ req[r].stage # "output_path"
            /\ "generateImage" \in Invoked(r) => req[r].path = req[r].args.output_path.s
            /\ "mkdir" \in Invoked(r) => req[r].dir = ParentOf(req[r].args.output_path.s)
            /\ "processImage" \in Invoked(r) =>
                 req[r].procParams.outputPath = req[r].args.output_path.s
            /\ "mkdir" \in Range(req[r].returned) =>
                 fsDirs = {ParentOf(req[r].args.output_path.s)}
            /\ "processImage" \in Range(req[r].returned) =>
                 fsFiles = {req[r].args.output_path.s}

\* A call with output_path "/b.jpeg" has succeeded: the file is at that path
\* and the directory made is "/".
C13_Witness ==
    \E r \in Answered :
        /\ req[r].args.output_path = RootPath
        /\ req[r].resp.kind = "success"
        /\ req[r].procParams.outputPath = <<"/", "b.jpeg">>
        /\ fsFiles = {<<"/", "b.jpeg">>}
        /\ fsDirs = {<<"/">>}

(* ---------------------- derived filenames (C14) ------------------------ *)

RedFox ==
    <<"A"," ","R","e","d"," ","F","o","x",","," ","R","u","n","n","i","n","g","!">>

\* "  Big<tab> <newline>Cat 9 ": white space around it and a mixed run inside.
BigCat == <<" "," ","B","i","g","\t"," ","\n","C","a","t"," ","9"," ">>

\* Nothing but special characters.
OnlySpecial == <<"?", "!">>

\* A special character after a space, at the end.
FoxBang == <<"F","o","x"," ","!">>

\* "ab ab ... ab": 20 words, 59 characters.
LongWords == [i \in 1..59 |-> IF i % 3 = 1 THEN "a" ELSE IF i % 3 = 2 THEN "b" ELSE " "]

\* "a!a!...a!": 60 characters of which 30 survive.
LongSpecial == [i \in 1..60 |-> IF i % 2 = 1 THEN "a" ELSE "!"]

NamePrompts == {RedFox, BigCat, OnlySpecial, FoxBang, LongWords, LongSpecial}

\* Calls without output_path, one per prompt.
NameBags == {Bag("object", Str(p), Undef, Undef, Undef, Undef, Undef) : p \in NamePrompts}

\* Two configurations that differ in format and working directory.
NameConfigs ==
    { [defaultModel |-> Str(<<"flux-1.1-pro">>), outputQuality |-> Num(DefaultQuality),
       outputFormat |-> <<"p","n","g">>, workingDirectory |-> <<"/", "wd">>],
      [defaultModel |-> Str(<<"flux-1.1-pro">>), outputQuality |-> Num(DefaultQuality),
       outputFormat |-> <<"w","e","b","p">>,
       workingDirectory |-> <<"/", "srv", "/", "img">>] }

\* One call without output_path, at any second of the clock.
NextNames ==
    \/ Start(NameConfigs)
    \/ Arrive("r1", NameBags)
    \/ Pipeline("r1")
    \/ Tick

SpecNames == Init /\ [][NextNames]_vars

\* The filename prefix the rule of the claim gives for each prompt.
ExpectedPrefix(p) ==
    CASE p = RedFox ->
           <<"a","_","r","e","d","_","f","o","x","_","r","u","n","n","i","n","g">>
      [] p = BigCat -> <<"b","i","g","_","c","a","t","_","9">>
      [] p = OnlySpecial -> <<>>
      [] p = FoxBang -> <<"f","o","x","_">>
      [] p = LongWords ->
           [i \in 1..50 |-> IF i % 3 = 1 THEN "a" ELSE IF i % 3 = 2 THEN "b" ELSE "_"]
      [] p = LongSpecial -> [i \in 1..30 |-> "a"]

\* The 19-character timestamp of second `at`: YYYY-MM-DDTHH-MM-SS.
Stamp(at) ==
    <<"2","0","2","5","-","0","1","-","0","1","T","0","0","-","0","0","-","0">>
    \o <<ToString(at)>>

\* C14: without output_path, the resolved path is the working directory, a
\* separator, and the filename made of the prompt's prefix (trimmed,
\* lower-cased, characters outside a-z, 0-9 and white space removed, runs of
\* white space turned into one "_", cut to 50 characters), "_", the
\* 19-character timestamp, "." and the default format; it is what mkdir and
\* processImage are given.
C14_DerivedFilename ==
    \A r \in Reqs :
        "generateImage" \in Invoked(r) =>
            LET expected ==
                    config.workingDirectory \o <<"/">>
                    \o ExpectedPrefix(req[r].args.prompt.s) \o <<"_">>
                    \o Stamp(req[r].at) \o <<".">> \o config.outputFormat
            IN  /\ Len(Stamp(req[r].at)) = 19
                /\ Len(ExpectedPrefix(req[r].args.prompt.s)) <= 50
                /\ req[r].path = expected
                /\ "mkdir" \in Invoked(r) => req[r].dir = config.workingDirectory
                /\ "processImage" \in Invoked(r) =>
                     req[r].procParams.outputPath = expected

\* The 59-character prompt has been cut to 50 characters and its file written
\* in the working directory at second 1.
C14_Witness ==
    \E r \in Answered :
        /\ req[r].args.prompt.s = LongWords
        /\ req[r].at = 1
        /\ req[r].resp.kind = "success"
        /\ Len(req[r].path) = Len(config.workingDirectory) + 1 + 50 + 1 + 19 + 1
                              + Len(config.outputFormat)
        /\ req[r].path \in fsFiles

(* ----------------------- order of the stages (C15) --------------------- *)

\* The stages of one request, in the order of handleGenerateImage.
StageOrder ==
    <<"resolveOutputPath", "generateImage", "downloadImage", "mkdir",
      "processImage", "calculateCost">>

\* The stages the handler awaits.
Awaited == {"generateImage", "downloadImage", "mkdir", "processImage"}

IsPrefix(s, t) == Len(s) <= Len(t) /\ s = SubSeq(t, 1, Len(s))

\* C15: in every state the stages a request has invoked are a prefix of the
\* fixed sequence (so each at most once), every awaited stage but the last
\* invoked has returned, a success response is emitted only after the whole
\* sequence, and the stage that failed is the last one invoked; in every step
\* the invoked stages only grow, and not at all once an error was raised.
C15_StagesInOrder ==
    /\ [](\A r \in Reqs :
            /\ IsPrefix(req[r].calls, StageOrder)
            /\ IsPrefix(req[r].returned, SelectSeq(req[r].calls, LAMBDA c : c \in Awaited))
            /\ \A i \in 1..(Len(req[r].calls) - 1) :
                 req[r].calls[i] \in Awaited => req[r].calls[i] \in Range(req[r].returned)
            /\ req[r].resp.kind = "success" =>
                 /\ req[r].calls = StageOrder
                 /\ Range(req[r].returned) = Awaited
            /\ (req[r].raised # NoError /\ req[r].stage \in Awaited) =>
                 /\ req[r].calls[Len(req[r].calls)] = req[r].stage
                 /\ req[r].stage \notin Range(req[r].returned)
            /\ (req[r].raised # NoError /\ req[r].stage = "result") =>
                 req[r].calls[Len(req[r].calls)] = "generateImage")
    /\ [][\A r \in Reqs :
            /\ IsPrefix(req[r].calls, req'[r].calls)
            /\ req[r].raised # NoError =>
                 /\ req'[r].calls = req[r].calls
                 /\ req'[r].returned = req[r].returned]_vars

\* One call was answered after downloadImage failed, having invoked exactly
\* the first three stages and the cleanup; the other succeeded after all six.
C15_Witness ==
    \E r \in Answered, q \in Answered :
        /\ req[r].stage = "downloadImage"
        /\ req[r].calls = <<"resolveOutputPath", "generateImage", "downloadImage">>
        /\ req[r].returned = <<"generateImage">>
        /\ req[r].cleanups = 1
        /\ req[q].resp.kind = "success"
        /\ req[q].calls = StageOrder

(* ---------------------- order of validation (C16) ---------------------- *)

\* The validation rules an argument object violates.
Violations(args) ==
    (IF PromptUsable(args) THEN {} ELSE {"prompt"})
    \cup (IF args.output_path.t = "string"
             /\ ~(Len(args.output_path.s) > 0 /\ args.output_path.s[1] = "/")
          THEN {"output_path"} ELSE {})
    \cup (IF Supported(EffectiveModel(args)) THEN {} ELSE {"model"})

\* The first violated rule in the order prompt, output path, model.
FirstViolation(args) ==
    IF "prompt" \in Violations(args) THEN "prompt"
    ELSE IF "output_path" \in Violations(args) THEN "output_path"
    ELSE "model"

\* The text of the error payload of each rule.
RuleText(rule, args) ==
    CASE rule = "prompt" ->
           ErrorText(<<"Prompt is required and must be a non-empty string">>)
      [] rule = "output_path" ->
           ErrorText(<<"output_path must be an absolute path. Relative paths are not supported because the client and server may run in different environments.">>)
      [] rule = "model" -> UnsupportedText(EffectiveModel(args))

\* C16 (as claimed): a call whose argument object violates several of the
\* rules prompt, output path, model is answered with the error of the first
\* violated rule in that order, raised at that rule's check.
C16_FirstViolationWins ==
    \A r \in Arrived :
        (req[r].args.kind = "object" /\ Cardinality(Violations(req[r].args)) >= 2) =>
            /\ req[r].pc = "done"
            /\ req[r].stage = FirstViolation(req[r].args)
            /\ req[r].resp.text = RuleText(FirstViolation(req[r].args), req[r].args)

(* ------------------- the filesystem is touched late (C17) -------------- *)

\* The stages at which a call fails before fs.mkdir is reached.
EarlyStages ==
    {"prompt", "output_path", "model", "generateImage", "result", "downloadImage"}

\* C17: fs.mkdir is invoked only by a call whose downloadImage has returned;
\* every directory and file that exists was made by a call whose mkdir
\* (processImage) returned; a call that failed in validation, in
\* generateImage, on its URL list or in downloadImage invoked no filesystem
\* operation; and the step by which a call arrives (path resolution
\* included) or fails at one of these stages leaves directories and files
\* as they were.
C17_DirectoryOnlyAfterDownload ==
    /\ [](/\ \A r \in Reqs :
               /\ Invoked(r) \cap FsCalls # {} =>
                    "downloadImage" \in Range(req[r].returned)
               /\ (req[r].raised # NoError /\ req[r].stage \in EarlyStages) =>
                    /\ Invoked(r) \cap FsCalls = {}
                    /\ req[r].dir = <<>>
          /\ \A d \in fsDirs : \E r \in Reqs :
               /\ "mkdir" \in Range(req[r].returned)
               /\ "downloadImage" \in Range(req[r].returned)
               /\ req[r].dir = d
          /\ \A f \in fsFiles : \E r \in Reqs :
               /\ "processImage" \in Range(req[r].returned)
               /\ req[r].procParams.outputPath = f)
    /\ [][\A r \in Reqs :
            (/\ req'[r] # req[r]
             /\ \/ req[r].pc = "idle"
                \/ req'[r].stage \in EarlyStages) =>
                (fsDirs' = fsDirs /\ fsFiles' = fsFiles)]_vars

\* One call was answered after downloadImage failed, the other after an empty
\* URL list, and no directory or file exists.
C17_Witness ==
    \E r \in Answered, q \in Answered :
        /\ req[r].stage = "downloadImage" /\ req[r].resp.isError
        /\ req[q].stage = "result" /\ req[q].resp.isError
        /\ fsDirs = {} /\ fsFiles = {}

(* ---------------------- colliding default paths (C18) ------------------ *)

\* C18: two calls without output_path that carry the same prompt and were
\* taken up in the same second have the same resolved path, hand the same
\* outputPath to processImage and create the same directory; and a call is
\* taken up whenever the server runs, whatever stage another call is
\* suspended at.
C18_SamePathCollision ==
    /\ \A r \in Reqs, q \in Reqs :
         (/\ r # q
          /\ "generateImage" \in Invoked(r) /\ "generateImage" \in Invoked(q)
          /\ req[r].args.output_path = Undef /\ req[q].args.output_path = Undef
          /\ req[r].args.prompt = req[q].args.prompt
          /\ req[r].at = req[q].at) =>
             /\ req[r].path = req[q].path
             /\ ("processImage" \in Invoked(r) /\ "processImage" \in Invoked(q)) =>
                  /\ req[r].procParams.outputPath = req[q].procParams.outputPath
                  /\ req[r].dir = req[q].dir
    /\ \A r \in Reqs :
         (Alive /\ mainPc = "running" /\ ~closed /\ req[r].pc = "idle") =>
             ENABLED Arrive(r, FewBags)

\* Both calls, arrived in the same second with the same prompt and no
\* output_path, are suspended in processImage with the same outputPath.
C18_Witness ==
    /\ req["r1"].pc = "processImage" /\ req["r2"].pc = "processImage"
    /\ req["r1"].args.output_path = Undef /\ req["r2"].args.output_path = Undef
    /\ req["r1"].args.prompt = ValidPrompt /\ req["r2"].args.prompt = ValidPrompt
    /\ req["r1"].at = req["r2"].at
    /\ req["r1"].procParams.outputPath = req["r2"].procParams.outputPath
    /\ Len(req["r1"].procParams.outputPath) > 0

(* ------------------------------ liveness (C19) ------------------------- *)

\* C19: when every pending external call eventually returns or rejects and
\* no signal arrives, every generate_image call that arrived is eventually
\* answered with a success or an error payload; it has no response before,
\* and once answered its response never changes.
C19_EventuallyOneResponse ==
    /\ \A r \in Reqs :
         (req[r].pc # "idle") ~>
             (req[r].pc = "done" /\ req[r].resp.kind \in {"success", "error"})
    /\ [](\A r \in Reqs : req[r].pc # "done" => req[r].resp = NoResponse)
    /\ [][\A r \in Reqs : req[r].pc = "done" => req'[r] = req[r]]_vars

\* Both calls have been answered, one with the success payload and one with
\* an error payload after its cleanup.
C19_Witness ==
    \E r \in Answered, q \in Answered :
        /\ req[r].resp.kind = "success"
        /\ req[q].resp.kind = "error" /\ req[q].cleanups = 1

(* ---------------------------- unknown tools (C20) ---------------------- *)

\* C20: a call of a tool other than generate_image ends with the validation
\* error "Unknown tool: <name>" thrown out of the handler, not returned as a
\* payload; it invokes no stage of the pipeline and no cleanupAll, and its
\* step leaves the tracker, the directories and the files as they were.
C20_UnknownToolThrows ==
    /\ [](\A r \in Arrived :
            req[r].tool # <<"generate_image">> =>
                /\ req[r].pc = "done"
                /\ req[r].resp.kind = "thrown"
                /\ ~req[r].resp.isError
                /\ req[r].raised = validationError(<<"Unknown tool: ">> \o req[r].tool)
                /\ req[r].raised.kind = "validation"
                /\ req[r].resp.text = <<"Unknown tool: ">> \o req[r].tool
                /\ req[r].calls = <<>>
                /\ req[r].returned = <<>>
                /\ req[r].cleanups = 0)
    /\ [][\A r \in Reqs :
            (req[r].pc = "idle" /\ req'[r].pc # "idle"
             /\ req'[r].tool # <<"generate_image">>) =>
                /\ tracked' = tracked
                /\ fsDirs' = fsDirs
                /\ fsFiles' = fsFiles]_vars

\* A call of "list_models" was rejected while the tracker held another
\* call's intermediate, which it still holds.
C20_Witness ==
    \E r \in Answered :
        /\ req[r].tool = <<"list_models">>
        /\ req[r].resp.kind = "thrown"
        /\ req[r].trackedAtResp
        /\ tracked # {}

=============================================================================
